---------------------------- MODULE Spec2Model ----------------------------
(***************************************************************************)
(* asyncify.TaskGroup (src/asyncify/group.py) on one asyncio event loop.   *)
(*                                                                         *)
(* The group's fields are modelled as they are in the source.  The event   *)
(* loop is modelled by what the group's code can observe of it: every      *)
(* asyncio.Task has a status and a cancel request flag, a task that        *)
(* settles queues its done callbacks on the loop's FIFO ready queue        *)
(* (loop.call_soon), and the callbacks run one at a time from the head of  *)
(* that queue.  The step in which an item settles and the firing of a      *)
(* call_later timer are loop callbacks whose causes lie outside the group; *)
(* they may happen between any two queued callbacks.                       *)
(*                                                                         *)
(* Items passed to create_task are coroutines; they are numbered in the    *)
(* order of the create_task calls (1, 2, ...).  Tasks are numbered in the  *)
(* order asyncio.create_task made them (1, 2, ...): the handle h is the    *)
(* h-th task started.                                                      *)
(*                                                                         *)
(* asyncify.TaskLoop (src/asyncify/loop.py) has variables, actions and     *)
(* specifications of its own: SpecInterval for the interval fields and     *)
(* SpecLoop for start, the run-loop, cancel and stop.  Each specification  *)
(* leaves the variables of the other class as the constructor set them.    *)
(***************************************************************************)
EXTENDS Integers, Sequences, FiniteSets, TLC

VARIABLES
    state,              \* self._state
    unscheduled,        \* self._unscheduled : sequence of coroutines
    pending_tasks,      \* self._pending_tasks : sequence of <<task_id, task>>
    finished_tasks,     \* self._finished_tasks : sequence of <<task_id, task>>
    handle,             \* self._handle : 0 (None) or a timer
    timers,             \* the loop's call_later handles made by change_timeout
    tasks,              \* the asyncio tasks made by create_task, by handle
    ready,              \* the loop's ready queue (done callbacks, wake-ups)
    pc,                 \* where the caller of `async with group` is
    waiter,             \* asyncio.wait's waiter future: none, pending or done
    waitFs,             \* asyncio.wait's fs: the tasks it waits for
    waitCounter,        \* asyncio.wait's counter
    ncoros,             \* number of create_task calls made so far
    exitExc,            \* the task whose exception __aexit__ raised, or 0
    liveTimeout,        \* history: a deadline fired inside the scope on an unsettled item
    ret,                \* what the step just taken returned; NoRet for a loop step
    \* asyncify.TaskLoop (src/asyncify/loop.py)
    _hours,             \* self._hours
    _minutes,           \* self._minutes
    _seconds,           \* self._seconds
    _task,              \* self._task : MISSING or the run-loop task of the current run
    _coro_task,         \* self._coro_task : MISSING or the task of the latest callback invocation
    _iteration,         \* self._iteration
    _last_iteration,    \* self._last_iteration : MISSING or a time
    _before_loop,       \* self._before_loop is not None
    _after_loop,        \* self._after_loop is not None
    runs,               \* the run-loop tasks made by start, in order
    calls,              \* the callback tasks made by the run-loops, in order
    stopper,            \* where the caller of `await loop.stop()` is
    now,                \* the clock, in ticks
    loopRet,            \* what the TaskLoop step just taken did
    \* asyncify.taskify_func (src/asyncify/func.py)
    _done_callbacks,    \* self._done_callbacks : the names registered
    removed,            \* history: names removed and not registered again since
    ftasks,             \* the tasks made by __call__, in order
    funcRet,            \* what the taskify_func step just taken did
    \* asyncify.today_sleep_until (src/asyncify/sleep.py)
    sleepCall,          \* the arguments, the clock and the locals of one call
    \* asyncify.ThreadCoroutineExecutor (src/asyncify/thread.py)
    wait,               \* self.wait
    _running,           \* self._running
    _unfinished_futures,\* self._unfinished_futures : sequence of futures
    _loop,              \* self._loop : the state of the thread's event loop
    futures,            \* the futures made by execute, in order
    execPc,             \* where the caller of `async with executor` is
    gathered,           \* the futures the gather of __aexit__ waits for
    closeQueued,        \* loop.close callbacks queued on the thread's loop
    \* asyncify.AsyncIterable (src/asyncify/iterable.py)
    iterable,           \* self.iterable : the list <<1, ..., n>>, as n
    _iterator,          \* self._iterator : None or the number of items taken
    hooks,              \* whether self.before and self.after are given
    iterPc,             \* where the `async for` over the object is
    events              \* history: hook calls, items taken, items delivered

groupVars == <<state, unscheduled, pending_tasks, finished_tasks, handle, timers,
               tasks, ready, pc, waiter, waitFs, waitCounter, ncoros, exitExc,
               liveTimeout, ret>>

intervalVars == <<_hours, _minutes, _seconds>>

runVars == <<_task, _coro_task, _iteration, _last_iteration, _before_loop,
             _after_loop, runs, calls, stopper, now>>

loopVars == <<intervalVars, runVars, loopRet>>

funcVars == <<_done_callbacks, removed, ftasks, funcRet>>

threadVars == <<wait, _running, _unfinished_futures, _loop, futures, execPc,
                gathered, closeQueued>>

iterVars == <<iterable, _iterator, hooks, iterPc, events>>

\* The variables outside TaskGroup and TaskLoop.
restVars == <<funcVars, sleepCall, threadVars, iterVars>>

\* What a step of one class leaves alone: the variables of the others.
outsideGroup == <<loopVars, restVars>>

outsideLoop == <<groupVars, restVars>>

outsideFunc == <<groupVars, loopVars, sleepCall, threadVars, iterVars>>

outsideSleep == <<groupVars, loopVars, funcVars, threadVars, iterVars>>

outsideThread == <<groupVars, loopVars, funcVars, sleepCall, iterVars>>

outsideIter == <<groupVars, loopVars, funcVars, sleepCall, threadVars>>

vars == <<groupVars, loopVars, restVars>>

-----------------------------------------------------------------------------
(* Bounds of the model. *)

MaxCoros == 2       \* create_task calls
MaxTimers == 2      \* change_timeout calls, the constructor's included
MaxRuns == 2        \* accepted TaskLoop.start calls
MaxCalls == 3       \* callback invocations made by the run-loops
MaxStops == 1       \* TaskLoop.stop calls
MaxTime == 4        \* the clock stops at this tick
MaxFuncCalls == 3   \* calls of the taskified function
MaxExec == 3        \* ThreadCoroutineExecutor.execute calls
MaxItems == 3       \* items of the iterable of an AsyncIterable
TicksPerSecond == 2 \* clock ticks in one second
FieldMax == 2       \* hours, minutes and seconds are drawn from -FieldMax..FieldMax

-----------------------------------------------------------------------------
(* Sequences. *)

Range(s) == {s[i] : i \in 1..Len(s)}

RECURSIVE SeqRemove(_, _)
\* list.remove(x): the list without the first element equal to x; the list
\* itself when x is not in it (where Python raises ValueError).
SeqRemove(s, x) ==
    IF s = <<>> THEN <<>>
    ELSE IF Head(s) = x THEN Tail(s)
    ELSE <<Head(s)>> \o SeqRemove(Tail(s), x)

Perms(S) ==
    {f \in [1..Cardinality(S) -> S] : \A i, j \in 1..Cardinality(S) : f[i] = f[j] => i = j}

Count(s, x) == Cardinality({i \in 1..Len(s) : s[i] = x})

-----------------------------------------------------------------------------
(* class _States *)

NOT_STARTED == "NOT_STARTED"
RUNNING == "RUNNING"
FINISHED == "FINISHED"
TIMEOUTED == "TIMEOUTED"

_States == {NOT_STARTED, RUNNING, FINISHED, TIMEOUTED}

-----------------------------------------------------------------------------
(* asyncio.Task *)

Handles == 1..Len(tasks)

\* task.done()
done(t) == t.st # "pending"

\* task.cancel(): a request the task's coroutine sees at its next step.
cancel(t) == IF done(t) THEN t ELSE [t EXCEPT !.cancelReq = TRUE]

\* The results a task's coroutine can end with.  A coroutine that was asked
\* to cancel ends cancelled unless it catches CancelledError.
Outcomes(t) ==
    IF t.cancelReq THEN {"cancelled", "result", "exception"}
    ELSE {"result", "exception"}

NoRet == [op |-> "none", out |-> "none", task |-> 0, arg |-> FALSE, yielded |-> <<>>]

Ret(op, out, task) ==
    [op |-> op, out |-> out, task |-> task, arg |-> FALSE, yielded |-> <<>>]

-----------------------------------------------------------------------------
(* asyncify.TaskLoop: the sentinel, the interval, the constructor *)

\* _sentinel.MISSING
MISSING == 0

\* None, for _last_iteration
None == 0 - 1

\* (hours * 3600) + (minutes * 60) + (seconds * 1)
TotalSeconds(hours, minutes, seconds) == (hours * 3600) + (minutes * 60) + (seconds * 1)

\* TaskLoop.total_seconds
total_seconds == TotalSeconds(_hours, _minutes, _seconds)

NoLoopRet == [op |-> "none", out |-> "none", arg |-> <<>>, run |-> 0]

LoopRet(op, out, arg, run) == [op |-> op, out |-> out, arg |-> arg, run |-> run]

\* Nobody is inside `await loop.stop()`.
NoStop == [pc |-> "idle", wake |-> 0, awaiting |-> 0, run |-> 0, n |-> 0]

\* TaskLoop(callback, hours=..., minutes=..., seconds=...) with a total
\* interval above 0: the fields as __init__ sets them.  (__new__ assigns the
\* three fields through their setters, which read self._hours before it
\* exists and raise AttributeError; the loop modelled here is the object
\* __init__ describes.)
TaskLoopInit(hours, minutes, seconds) ==
    /\ _hours = hours
    /\ _minutes = minutes
    /\ _seconds = seconds
    /\ _coro_task = MISSING
    /\ _task = MISSING
    /\ _iteration = 0
    /\ _last_iteration = None
    /\ _before_loop = FALSE
    /\ _after_loop = FALSE
    /\ runs = <<>>
    /\ calls = <<>>
    /\ stopper = NoStop
    /\ now = 0
    /\ loopRet = NoLoopRet

-----------------------------------------------------------------------------
(* TaskGroup.all_tasks *)

all_tasks == pending_tasks \o finished_tasks


\* A task_id that counts the pending tasks only.
TaskIdOfPending(pend, fin) == Len(pend)

\* task_id = len(self.all_tasks), for the lists as they are at the call
TaskId(pend, fin) == Len(pend) + Len(fin)

\* asyncio.create_task(coro): a new task, not done, wrapping the coroutine.
\* id is the task_id its add_to_finished closure holds.
NewTask(id, coro) == [coro |-> coro, id |-> id, st |-> "pending", cancelReq |-> FALSE]

\* create_task's scheduling branch: the new task is appended to pending.
Schedule(pend, fin, tsk, coro) ==
    LET task_id == TaskId(pend, fin)
        task == Len(tsk) + 1
    IN  [pending |-> Append(pend, <<task_id, task>>),
         tasks |-> Append(tsk, NewTask(task_id, coro)),
         task |-> task]

\* The state in which create_task buffers the coroutine.
Buffers(st) == st = NOT_STARTED

\* The state in which create_task and nothing else raises RuntimeError.
Rejects(st) == st = FINISHED

(* TaskGroup.create_task(coro), coro the next coroutine. *)
create_task ==
    /\ ncoros < MaxCoros
    /\ ncoros' = ncoros + 1
    /\ IF Buffers(state) THEN
            /\ unscheduled' = Append(unscheduled, ncoros + 1)
            /\ ret' = Ret("create_task", "None", 0)
            /\ UNCHANGED <<pending_tasks, tasks>>
       ELSE IF Rejects(state) THEN
            /\ ret' = Ret("create_task", "RuntimeError", 0)
            /\ UNCHANGED <<unscheduled, pending_tasks, tasks>>
       ELSE LET s == Schedule(pending_tasks, finished_tasks, tasks, ncoros + 1) IN
            /\ pending_tasks' = s.pending
            /\ tasks' = s.tasks
            /\ ret' = Ret("create_task", "task", s.task)
            /\ UNCHANGED unscheduled
    /\ UNCHANGED <<state, finished_tasks, handle, timers, ready, pc, waiter,
                   waitFs, waitCounter, exitExc, liveTimeout>>
    /\ UNCHANGED outsideGroup

-----------------------------------------------------------------------------
(* TaskGroup.cancel_all_tasks *)

\* The tasks after the loop over pending: every task of pend that is not
\* done has been asked to cancel.
CancelPending(pend, tsk) ==
    [h \in DOMAIN tsk |->
        IF \E i \in 1..Len(pend) : pend[i][2] = h THEN cancel(tsk[h]) ELSE tsk[h]]

\* An extend that puts the pending pairs in front.
ExtendFinishedInFront(fin, pend) == pend \o fin

\* self._finished_tasks.extend(self._pending_tasks)
ExtendFinished(fin, pend) == fin \o pend

cancel_all_tasks ==
    /\ tasks' = CancelPending(pending_tasks, tasks)
    /\ finished_tasks' = ExtendFinished(finished_tasks, pending_tasks)
    /\ pending_tasks' = <<>>
    /\ ret' = Ret("cancel_all_tasks", "None", 0)
    /\ UNCHANGED <<state, unscheduled, handle, timers, ready, pc, waiter,
                   waitFs, waitCounter, ncoros, exitExc, liveTimeout>>
    /\ UNCHANGED outsideGroup

-----------------------------------------------------------------------------
(* TaskGroup.change_timeout and the timer callback __raise_timeout *)

Timers == 1..MaxTimers

\* A change_timeout that is allowed in every state.
TimeoutAllowedAlways(st) == st \in _States

\* The states in which change_timeout schedules a timer.
TimeoutAllowed(st) == st \in {NOT_STARTED, RUNNING}

\* A change_timeout that leaves the timer it replaces scheduled.
CancelHandleNever(tm, hd) == tm

\* self._handle.cancel(), when there is a handle: a timer that has fired
\* or was cancelled stays as it is.
CancelHandle(tm, hd) ==
    IF hd # 0 /\ tm[hd] = "scheduled" THEN [tm EXCEPT ![hd] = "cancelled"] ELSE tm

\* The first timer not yet made by loop.call_later, 0 when none is left.
FreeTimer(tm) ==
    IF \E k \in Timers : tm[k] = "unused"
    THEN CHOOSE k \in Timers : tm[k] = "unused" /\ \A j \in 1..(k - 1) : tm[j] # "unused"
    ELSE 0

change_timeout ==
    /\ FreeTimer(timers) # 0
    /\ IF ~TimeoutAllowed(state) THEN
            /\ ret' = Ret("change_timeout", "RuntimeError", 0)
            /\ UNCHANGED <<handle, timers>>
       ELSE LET k == FreeTimer(timers) IN
            /\ timers' = [CancelHandle(timers, handle) EXCEPT ![k] = "scheduled"]
            /\ handle' = k
            /\ ret' = Ret("change_timeout", "None", 0)
    /\ UNCHANGED <<state, unscheduled, pending_tasks, finished_tasks, tasks, ready,
                   pc, waiter, waitFs, waitCounter, ncoros, exitExc, liveTimeout>>
    /\ UNCHANGED outsideGroup

\* The states in which a timer that fires times the group out.
TimesOut(st) == st # FINISHED

\* The loop runs the call_later handle k: __raise_timeout.
\* History: the deadline fires on a group that times out, the caller being
\* inside the scope (in the body or waiting in __aexit__) and an item not done.
LiveDeadline ==
    /\ TimesOut(state)
    /\ pc \in {"body", "exit_wait"}
    /\ \E h \in Handles : ~done(tasks[h])

raise_timeout(k) ==
    /\ timers[k] = "scheduled"
    /\ timers' = [timers EXCEPT ![k] = "fired"]
    /\ IF TimesOut(state) THEN
            /\ state' = TIMEOUTED
            /\ tasks' = CancelPending(pending_tasks, tasks)
            /\ finished_tasks' = ExtendFinished(finished_tasks, pending_tasks)
            /\ pending_tasks' = <<>>
       ELSE UNCHANGED <<state, tasks, finished_tasks, pending_tasks>>
    /\ liveTimeout' = (liveTimeout \/ LiveDeadline)
    /\ ret' = NoRet
    /\ UNCHANGED <<unscheduled, handle, ready, pc, waiter, waitFs, waitCounter,
                   ncoros, exitExc>>
    /\ UNCHANGED outsideGroup

-----------------------------------------------------------------------------
(* TaskGroup.__aenter__ *)

RECURSIVE ScheduleAll(_, _, _, _)
\* for coro in self._unscheduled: self.create_task(coro), the state being
\* RUNNING: every call takes create_task's scheduling branch.
ScheduleAll(coros, pend, fin, tsk) ==
    IF coros = <<>> THEN [pending |-> pend, tasks |-> tsk]
    ELSE LET s == Schedule(pend, fin, tsk, Head(coros))
         IN  ScheduleAll(Tail(coros), s.pending, fin, s.tasks)

aenter ==
    /\ pc = "init"
    /\ pc' = "body"
    /\ state' = RUNNING
    /\ LET s == ScheduleAll(unscheduled, pending_tasks, finished_tasks, tasks) IN
            /\ pending_tasks' = s.pending
            /\ tasks' = s.tasks
    /\ ret' = Ret("__aenter__", "self", 0)
    /\ UNCHANGED <<unscheduled, finished_tasks, handle, timers, ready, waiter,
                   waitFs, waitCounter, ncoros, exitExc, liveTimeout>>
    /\ UNCHANGED outsideGroup

-----------------------------------------------------------------------------
(* The loop's ready queue *)

Callback(kind, h) == [kind |-> kind, task |-> h]

IsOnCompletion(cb) == cb.kind = "_on_completion"

\* The callbacks a task has when it settles, in the order they were added:
\* create_task's add_to_finished, then asyncio.wait's _on_completion when a
\* wait that has not returned holds the task.
DoneCallbacks(h) ==
    <<Callback("add_to_finished", h)>>
    \o (IF pc = "exit_wait" /\ h \in waitFs THEN <<Callback("_on_completion", h)>> ELSE <<>>)

\* An item's coroutine ends: the task settles and the loop queues its done
\* callbacks.
settle(h) ==
    /\ tasks[h].st = "pending"
    /\ \E o \in Outcomes(tasks[h]) : tasks' = [tasks EXCEPT ![h].st = o]
    /\ ready' = ready \o DoneCallbacks(h)
    /\ ret' = NoRet
    /\ UNCHANGED <<state, unscheduled, pending_tasks, finished_tasks, handle, timers,
                   pc, waiter, waitFs, waitCounter, ncoros, exitExc, liveTimeout>>
    /\ UNCHANGED outsideGroup

\* Someone holding the task create_task returned calls task.cancel().
external_cancel(h) ==
    /\ tasks[h].st = "pending"
    /\ ~tasks[h].cancelReq
    /\ tasks' = [tasks EXCEPT ![h] = cancel(@)]
    /\ ret' = NoRet
    /\ UNCHANGED <<state, unscheduled, pending_tasks, finished_tasks, handle, timers,
                   ready, pc, waiter, waitFs, waitCounter, ncoros, exitExc, liveTimeout>>
    /\ UNCHANGED outsideGroup

\* add_to_finished's list.remove inside try/except ValueError
RemovePending(pend, entry) == SeqRemove(pend, entry)

\* add_to_finished's self._finished_tasks.append((task_id, task))
AppendFinished(pend, fin, entry) == Append(fin, entry)

\* The loop runs the add_to_finished closure of task h.
add_to_finished ==
    /\ ready # <<>>
    /\ Head(ready).kind = "add_to_finished"
    /\ LET h == Head(ready).task
           entry == <<tasks[h].id, h>>
       IN  /\ pending_tasks' = RemovePending(pending_tasks, entry)
           /\ finished_tasks' = AppendFinished(pending_tasks, finished_tasks, entry)
    /\ ready' = Tail(ready)
    /\ ret' = NoRet
    /\ UNCHANGED <<state, unscheduled, handle, timers, tasks, pc, waiter, waitFs,
                   waitCounter, ncoros, exitExc, liveTimeout>>
    /\ UNCHANGED outsideGroup

\* asyncio.wait's condition for waking the waiter, return_when being
\* FIRST_EXCEPTION: every task is done, or this one raised.
WaitOver(counter, t) == counter <= 0 \/ t.st = "exception"

\* The loop runs asyncio.wait's _on_completion for task h.
on_completion ==
    /\ ready # <<>>
    /\ Head(ready).kind = "_on_completion"
    /\ LET h == Head(ready).task IN
       IF waiter = "pending" /\ WaitOver(waitCounter - 1, tasks[h]) THEN
            /\ waiter' = "done"
            /\ ready' = Append(Tail(ready), Callback("wakeup", 0))
       ELSE /\ ready' = Tail(ready)
            /\ UNCHANGED waiter
    /\ waitCounter' = waitCounter - 1
    /\ ret' = NoRet
    /\ UNCHANGED <<state, unscheduled, pending_tasks, finished_tasks, handle, timers,
                   tasks, pc, waitFs, ncoros, exitExc, liveTimeout>>
    /\ UNCHANGED outsideGroup

-----------------------------------------------------------------------------
(* TaskGroup.__aexit__ *)

\* The pair of pend that holds task h, <<>> when there is none.
PairOf(pend, h) ==
    IF \E i \in 1..Len(pend) : pend[i][2] = h
    THEN <<pend[CHOOSE i \in 1..Len(pend) : pend[i][2] = h]>>
    ELSE <<>>

\* An __aexit__ that makes TimeoutError of every CancelledError.
ExitRaisesAnyState(st, t) ==
    CASE t.st = "exception" -> "exception"
      [] t.st = "cancelled" -> "TimeoutError"
      [] OTHER -> "continue"

\* What task.result() raises in __aexit__'s loop and what the loop makes of
\* it: "exception" leaves __aexit__ as it is, a CancelledError becomes
\* TimeoutError in state TIMEOUTED and is dropped otherwise.
ExitRaises(st, t) ==
    CASE t.st = "exception" -> "exception"
      [] t.st = "cancelled" /\ st = TIMEOUTED -> "TimeoutError"
      [] OTHER -> "continue"

RECURSIVE AexitFor(_, _, _)
\* for task in done, in the order the set is walked: move the task's pair
\* from pending to finished when pending holds it, then task.result().
AexitFor(order, pend, fin) ==
    IF order = <<>> THEN [pending |-> pend, finished |-> fin, out |-> "continue", task |-> 0]
    ELSE LET h == Head(order)
             pair == PairOf(pend, h)
             pend2 == IF pair = <<>> THEN pend ELSE SeqRemove(pend, pair[1])
             fin2 == fin \o pair
             out == ExitRaises(state, tasks[h])
         IN  IF out = "continue" THEN AexitFor(Tail(order), pend2, fin2)
             ELSE [pending |-> pend2, finished |-> fin2, out |-> out, task |-> h]

\* The _on_completion callbacks asyncio.wait queues at once, for the tasks
\* of pend that are already done (add_done_callback on a done future).
QueuedAtOnce(pend) ==
    LET isDone(p) == done(tasks[p[2]])
        d == SelectSeq(pend, isDone)
    IN  [i \in 1..Len(d) |-> Callback("_on_completion", d[i][2])]

\* __aexit__ from its first line, the lists being pend and fin and the ready
\* queue rdy: it returns when nothing is pending and otherwise suspends in
\* asyncio.wait on the tasks of pending.
Aexit(pend, fin, rdy) ==
    /\ pending_tasks' = pend
    /\ finished_tasks' = fin
    /\ exitExc' = 0
    /\ IF pend = <<>> THEN
            /\ pc' = "returned"
            /\ waiter' = "none"
            /\ waitFs' = {}
            /\ waitCounter' = 0
            /\ ready' = rdy
       ELSE /\ pc' = "exit_wait"
            /\ waiter' = "pending"
            /\ waitFs' = {p[2] : p \in Range(pend)}
            /\ waitCounter' = Cardinality({p[2] : p \in Range(pend)})
            /\ ready' = rdy \o QueuedAtOnce(pend)

\* The caller leaves the body of `async with`: __aexit__ is called.
aexit ==
    /\ pc = "body"
    /\ Aexit(pending_tasks, finished_tasks, ready)
    /\ ret' = NoRet
    /\ UNCHANGED <<state, unscheduled, handle, timers, tasks, ncoros, liveTimeout>>
    /\ UNCHANGED outsideGroup

\* The loop resumes __aexit__ after asyncio.wait: wait drops its callbacks
\* (those already queued do nothing any more), done is the set of tasks of
\* fs that are done, and the loop over done runs; then __aexit__ calls itself.
wakeup ==
    /\ ready # <<>>
    /\ Head(ready).kind = "wakeup"
    /\ LET notOnCompletion(cb) == ~IsOnCompletion(cb)
           rest == SelectSeq(Tail(ready), notOnCompletion)
           doneSet == {h \in waitFs : done(tasks[h])}
       IN  \E order \in Perms(doneSet) :
             LET r == AexitFor(order, pending_tasks, finished_tasks) IN
             IF r.out = "continue" THEN Aexit(r.pending, r.finished, rest)
             ELSE /\ pending_tasks' = r.pending
                  /\ finished_tasks' = r.finished
                  /\ pc' = IF r.out = "TimeoutError" THEN "raised_timeout" ELSE "raised_exception"
                  /\ exitExc' = IF r.out = "TimeoutError" THEN 0 ELSE r.task
                  /\ waiter' = "none"
                  /\ waitFs' = {}
                  /\ waitCounter' = 0
                  /\ ready' = rest
    /\ ret' = NoRet
    /\ UNCHANGED <<state, unscheduled, handle, timers, tasks, ncoros, liveTimeout>>
    /\ UNCHANGED outsideGroup

-----------------------------------------------------------------------------
(* TaskGroup.get_results *)

\* A get_results that only refuses a group that was never started.
ResultsReadyOnceStarted(st) == st # NOT_STARTED

\* The state in which get_results walks the finished list.
ResultsReady(st) == st = FINISHED

Value(h) == [kind |-> "value", of |-> h]
ExceptionOf(h) == [kind |-> "exception", of |-> h]

RECURSIVE Walk(_, _, _)
\* The loop over self._finished_tasks: what it yields and how it ends.
\* task.result() raises InvalidStateError for a task that is not done (made
\* RuntimeError), CancelledError for a cancelled task (a BaseException, not
\* caught), the task's exception for one that raised.
Walk(fin, return_exceptions, acc) ==
    IF fin = <<>> THEN [out |-> "exhausted", task |-> 0, yielded |-> acc]
    ELSE LET task_id == Head(fin)[1]
             h == Head(fin)[2]
             st == tasks[h].st
         IN  CASE st = "pending" -> [out |-> "RuntimeError", task |-> h, yielded |-> acc]
               [] st = "cancelled" -> [out |-> "CancelledError", task |-> h, yielded |-> acc]
               [] st = "exception" /\ ~return_exceptions ->
                    [out |-> "exception", task |-> h, yielded |-> acc]
               [] st = "exception" /\ return_exceptions ->
                    Walk(Tail(fin), return_exceptions, Append(acc, <<task_id, ExceptionOf(h)>>))
               [] OTHER ->
                    Walk(Tail(fin), return_exceptions, Append(acc, <<task_id, Value(h)>>))

\* list(group.get_results(return_exceptions=...)) for the group as it is
GetResults(return_exceptions) ==
    IF ~ResultsReady(state) THEN [out |-> "RuntimeError", task |-> 0, yielded |-> <<>>]
    ELSE Walk(finished_tasks, return_exceptions, <<>>)

get_results(return_exceptions) ==
    /\ LET r == GetResults(return_exceptions) IN
       ret' = [op |-> "get_results", out |-> r.out, task |-> r.task,
               arg |-> return_exceptions, yielded |-> r.yielded]
    /\ UNCHANGED <<state, unscheduled, pending_tasks, finished_tasks, handle, timers,
                   tasks, ready, pc, waiter, waitFs, waitCounter, ncoros, exitExc, liveTimeout>>
    /\ UNCHANGED outsideGroup

-----------------------------------------------------------------------------
(* TaskGroup.__init__ and the specification *)

\* TaskGroup(timeout_in=...): timeout_in None (FALSE here) or a positive
\* number, for which __init__ calls change_timeout.
-----------------------------------------------------------------------------
(* asyncify.taskify_func (src/asyncify/func.py)                             *)
(*                                                                          *)
(* A done callback is known by its __name__, the key of _done_callbacks.    *)

CallbackNames == {"first", "second"}

NoFuncRet == [op |-> "none", out |-> "none", arg |-> ""]

FuncRet(op, out, arg) == [op |-> op, out |-> out, arg |-> arg]

\* taskify_func.__init__
FuncInit ==
    /\ _done_callbacks = {}
    /\ removed = {}
    /\ ftasks = <<>>
    /\ funcRet = NoFuncRet

(* taskify_func.default_done_callback(callback), name its __name__ *)
default_done_callback(name) ==
    /\ _done_callbacks' = _done_callbacks \cup {name}
    /\ removed' = removed \ {name}
    /\ funcRet' = FuncRet("default_done_callback", "callback", name)
    /\ UNCHANGED <<ftasks, outsideFunc>>

\* `name not in self._done_callbacks`
NotRegistered(registry, name) == name \notin registry

\* The registry after remove_default_done_callback(name) for a registered
\* name: the method ends after its membership test and deletes nothing.
Removal(registry, name) == registry

(* taskify_func.remove_default_done_callback(name) *)
remove_default_done_callback(name) ==
    /\ IF NotRegistered(_done_callbacks, name) THEN
            /\ funcRet' = FuncRet("remove_default_done_callback", "RuntimeError", name)
            /\ UNCHANGED <<_done_callbacks, removed>>
       ELSE /\ _done_callbacks' = Removal(_done_callbacks, name)
            /\ removed' = removed \cup {name}
            /\ funcRet' = FuncRet("remove_default_done_callback", "None", name)
    /\ UNCHANGED <<ftasks, outsideFunc>>

\* The callbacks __call__ attaches to the task it makes.
Attached(registry) == registry

(* taskify_func.__call__(): a task with the registered callbacks attached. *)
(* removed as it is at the call is kept with the task.                      *)
taskify_call ==
    /\ Len(ftasks) < MaxFuncCalls
    /\ ftasks' = Append(ftasks, [callbacks |-> Attached(_done_callbacks), removed |-> removed])
    /\ funcRet' = FuncRet("__call__", "task", "")
    /\ UNCHANGED <<_done_callbacks, removed, outsideFunc>>

-----------------------------------------------------------------------------
(* asyncify.today_sleep_until (src/asyncify/sleep.py)                       *)

\* The arguments a call is made with; None is an argument left out.
SleepHours == {None} \cup 0..23

SleepMinutes == {None, 0, 30, 59}

SleepSeconds == {None, 0, 59}

\* datetime.datetime.now() as <<hour, minute, second>>
SleepNows == {<<0, 0, 0>>, <<12, 30, 15>>, <<23, 59, 59>>}

\* `if not x: x = 0`
OrZero(x) == IF x = None \/ x = 0 THEN 0 ELSE x

\* `if hours > 12: hours -= 12`
HalfDay(hours) == IF hours > 12 THEN hours - 12 ELSE hours

\* total_seconds_now
TotalSecondsNow(t) == (t[1] * 3600) + (t[2] * 60) + t[3]

\* sleep_time, lines 70-84
SleepTime(hours, minutes, seconds, t) ==
    ((HalfDay(OrZero(hours)) * 3600) + (OrZero(minutes) * 60) + OrZero(seconds))
        - TotalSecondsNow(t)

\* A call that is about to be made.
SleepInit(hours, minutes, seconds, t) ==
    sleepCall = [hours |-> hours, minutes |-> minutes, seconds |-> seconds,
                 now |-> t, sleep_time |-> 0, pc |-> "called"]

(* today_sleep_until(hours, minutes, seconds), up to `await asyncio.sleep` *)
today_sleep_until ==
    /\ sleepCall.pc = "called"
    /\ IF sleepCall.hours = None /\ sleepCall.minutes = None /\ sleepCall.seconds = None THEN
            sleepCall' = [sleepCall EXCEPT !.pc = "TypeError"]
       ELSE sleepCall' = [sleepCall EXCEPT
                !.pc = "sleeping",
                !.sleep_time = SleepTime(sleepCall.hours, sleepCall.minutes,
                                         sleepCall.seconds, sleepCall.now)]
    /\ UNCHANGED outsideSleep

(* `await asyncio.sleep(sleep_time)` ends *)
sleep_done ==
    /\ sleepCall.pc = "sleeping"
    /\ sleepCall' = [sleepCall EXCEPT !.pc = "returned"]
    /\ UNCHANGED outsideSleep

-----------------------------------------------------------------------------
(* asyncify.ThreadCoroutineExecutor (src/asyncify/thread.py)                *)
(*                                                                          *)
(* A future is the asyncio future execute returns; it wraps a coroutine     *)
(* that runs on the event loop of the thread.  coro is the state of the     *)
(* coroutine in the thread, fut the state of the future on the caller's     *)
(* loop, which follows it a step later.                                     *)

Futures == 1..Len(futures)

\* ThreadCoroutineExecutor(wait=w)
ExecutorInit(w) ==
    /\ wait = w
    /\ _running = FALSE
    /\ _unfinished_futures = <<>>
    /\ _loop = "new"
    /\ futures = <<>>
    /\ execPc = "init"
    /\ gathered = {}
    /\ closeQueued = 0

(* __aenter__: start() sets _running and starts the thread, whose run() *)
(* runs the loop forever.                                               *)
executor_aenter ==
    /\ execPc = "init"
    /\ execPc' = "body"
    /\ _running' = TRUE
    /\ _loop' = "running"
    /\ UNCHANGED <<wait, _unfinished_futures, futures, gathered, closeQueued, outsideThread>>

(* execute(coro), called in the block or while its exit is waiting *)
execute ==
    /\ execPc \in {"body", "exit_wait"}
    /\ Len(futures) < MaxExec
    /\ futures' = Append(futures, [coro |-> "running", fut |-> "pending"])
    /\ _unfinished_futures' = Append(_unfinished_futures, Len(futures) + 1)
    /\ UNCHANGED <<wait, _running, _loop, execPc, gathered, closeQueued, outsideThread>>

(* A coroutine ends on the thread's loop, by returning or by raising. *)
coro_done(f) ==
    /\ _loop = "running"
    /\ futures[f].coro = "running"
    /\ \E out \in {"result", "exception"} : futures' = [futures EXCEPT ![f].coro = out]
    /\ UNCHANGED <<wait, _running, _unfinished_futures, _loop, execPc, gathered,
                   closeQueued, outsideThread>>

(* The future of a finished coroutine is set on the caller's loop and its *)
(* done callback _remove_from_unfinished runs.                            *)
future_done(f) ==
    /\ futures[f].coro # "running"
    /\ futures[f].fut = "pending"
    /\ futures' = [futures EXCEPT ![f].fut = futures[f].coro]
    /\ _unfinished_futures' = SeqRemove(_unfinished_futures, f)
    /\ UNCHANGED <<wait, _running, _loop, execPc, gathered, closeQueued, outsideThread>>

\* close(): _running is cleared and loop.close is queued on the thread's loop.
Close ==
    /\ _running' = FALSE
    /\ closeQueued' = closeQueued + 1

\* The futures asyncio.gather(*self._unfinished_futures) waits for: the list
\* as it is when __aexit__ evaluates it.
Gathered(unfinished) == Range(unfinished)

(* __aexit__ up to its await: with wait it gathers the unfinished futures; *)
(* a gather of nothing is done at once.  The finally clause calls close(). *)
executor_aexit ==
    /\ execPc = "body"
    /\ IF wait /\ Gathered(_unfinished_futures) # {} THEN
            /\ execPc' = "exit_wait"
            /\ gathered' = Gathered(_unfinished_futures)
            /\ UNCHANGED <<_running, closeQueued>>
       ELSE /\ execPc' = "exited"
            /\ Close
            /\ UNCHANGED gathered
    /\ UNCHANGED <<wait, _unfinished_futures, _loop, futures, outsideThread>>

\* The gather raises: one of its futures has an exception.
GatherRaises == \E f \in gathered : futures[f].fut = "exception"

\* The gather returns: all of its futures have a result.
GatherReturns == \A f \in gathered : futures[f].fut = "result"

(* The gather ends and __aexit__ goes on to its finally clause. *)
executor_wakeup ==
    /\ execPc = "exit_wait"
    /\ GatherRaises \/ GatherReturns
    /\ execPc' = IF GatherRaises THEN "raised" ELSE "exited"
    /\ Close
    /\ UNCHANGED <<wait, _unfinished_futures, _loop, futures, gathered, outsideThread>>

(* The queued loop.close runs as a callback of the thread's loop: the loop *)
(* is running, so close raises RuntimeError and the loop stays as it is.   *)
loop_close ==
    /\ closeQueued > 0
    /\ _loop = "running"
    /\ closeQueued' = closeQueued - 1
    /\ _loop' = "running"
    /\ UNCHANGED <<wait, _running, _unfinished_futures, futures, execPc, gathered, outsideThread>>

-----------------------------------------------------------------------------
(* asyncify.AsyncIterable (src/asyncify/iterable.py)                        *)
(*                                                                          *)
(* The iterable is the list <<1, ..., iterable>>; the iterator made from it *)
(* is the number of items taken so far.  The hooks are coroutines whose     *)
(* bodies lie outside the class: each returns or raises.                    *)

Items == 0..MaxItems

\* AsyncIterable(iterable, before=..., after=...)
IterableInit(n, has_before, has_after) ==
    /\ iterable = n
    /\ _iterator = None
    /\ hooks = [before |-> has_before, after |-> has_after]
    /\ iterPc = "init"
    /\ events = <<>>

Event(kind, item) == [kind |-> kind, item |-> item]

(* __aiter__, at the start of `async for` *)
aiter ==
    /\ iterPc = "init"
    /\ _iterator' = 0
    /\ iterPc' = "idle"
    /\ UNCHANGED <<iterable, hooks, events, outsideIter>>

\* An iterator that stops one item early.
ExhaustedEarly(taken, n) == taken + 1 >= n

\* next(self._iterator) raises StopIteration
Exhausted(taken, n) == taken >= n

\* __anext__ from `return item`: the item is delivered to the loop body.
Deliver(ev, item) ==
    /\ events' = Append(ev, Event("yield", item))
    /\ iterPc' = "idle"

\* __anext__ from `try: item = next(self._iterator)` up to its next await.
Take(ev) ==
    IF Exhausted(_iterator, iterable) THEN
        /\ _iterator' = None
        /\ iterPc' = "stopped"
        /\ events' = ev
    ELSE
        /\ _iterator' = _iterator + 1
        /\ IF hooks.after THEN
                /\ events' = ev \o <<Event("item", _iterator + 1), Event("after", _iterator + 1)>>
                /\ iterPc' = "after"
           ELSE Deliver(Append(ev, Event("item", _iterator + 1)), _iterator + 1)

(* __anext__ up to its first await *)
anext ==
    /\ iterPc = "idle"
    /\ IF hooks.before THEN
            /\ events' = Append(events, Event("before", 0))
            /\ iterPc' = "before"
            /\ UNCHANGED _iterator
       ELSE Take(events)
    /\ UNCHANGED <<iterable, hooks, outsideIter>>

(* `await self.before()` ends *)
iter_before_done ==
    /\ iterPc = "before"
    /\ \E returns \in BOOLEAN :
            IF returns THEN Take(events)
            ELSE /\ iterPc' = "raised"
                 /\ UNCHANGED <<_iterator, events>>
    /\ UNCHANGED <<iterable, hooks, outsideIter>>

(* `await self.after()` ends *)
iter_after_done ==
    /\ iterPc = "after"
    /\ \E returns \in BOOLEAN :
            IF returns THEN Deliver(events, _iterator)
            ELSE /\ iterPc' = "raised"
                 /\ UNCHANGED events
    /\ UNCHANGED <<iterable, _iterator, hooks, outsideIter>>

-----------------------------------------------------------------------------
(* The objects of the other classes, as built and left alone. *)

SleepNotCalled == SleepInit(None, None, None, <<0, 0, 0>>)

RestInit ==
    /\ FuncInit
    /\ SleepNotCalled
    /\ ExecutorInit(FALSE)
    /\ IterableInit(0, FALSE, FALSE)

\* TaskGroup.__init__(timeout): timeout_in tells whether a timeout was given.
TaskGroupInit(timeout_in) ==
    /\ state = NOT_STARTED
    /\ unscheduled = <<>>
    /\ pending_tasks = <<>>
    /\ finished_tasks = <<>>
    /\ handle = IF timeout_in THEN 1 ELSE 0
    /\ timers = [k \in Timers |-> IF timeout_in /\ k = 1 THEN "scheduled" ELSE "unused"]
    /\ tasks = <<>>
    /\ ready = <<>>
    /\ pc = "init"
    /\ waiter = "none"
    /\ waitFs = {}
    /\ waitCounter = 0
    /\ ncoros = 0
    /\ exitExc = 0
    /\ liveTimeout = FALSE
    /\ ret = NoRet

Init ==
    /\ \E timeout_in \in BOOLEAN : TaskGroupInit(timeout_in)
    /\ TaskLoopInit(0, 0, 1)
    /\ RestInit

Next ==
    \/ create_task
    \/ cancel_all_tasks
    \/ change_timeout
    \/ \E k \in Timers : raise_timeout(k)
    \/ aenter
    \/ aexit
    \/ \E h \in Handles : settle(h)
    \/ \E h \in Handles : external_cancel(h)
    \/ add_to_finished
    \/ on_completion
    \/ wakeup
    \/ \E return_exceptions \in BOOLEAN : get_results(return_exceptions)

Spec == Init /\ [][Next]_vars

TypeOK ==
    /\ state \in _States
    /\ pc \in {"init", "body", "exit_wait", "returned", "raised_timeout", "raised_exception"}
    /\ waiter \in {"none", "pending", "done"}
    /\ handle \in 0..MaxTimers
    /\ ncoros \in 0..MaxCoros
    /\ Len(tasks) <= ncoros
    /\ \A h \in Handles : tasks[h].st \in {"pending", "result", "exception", "cancelled"}

-----------------------------------------------------------------------------
(* TaskLoop: the hours, minutes and seconds setters, change_interval *)

Fields == (0 - FieldMax)..FieldMax

\* _assert_time(old, name) raises: `self.total_seconds <= 0`, for the fields
\* as they are when the setter calls it, before it assigns the new value.
AssertTimeRaises(hours, minutes, seconds) == TotalSeconds(hours, minutes, seconds) <= 0

(* loop.hours = new *)
hours_setter(new) ==
    /\ IF AssertTimeRaises(_hours, _minutes, _seconds) THEN
            \* setattr(self, '_hours', self._hours); raise ValueError
            /\ _hours' = _hours
            /\ loopRet' = LoopRet("hours", "ValueError", <<new>>, 0)
       ELSE /\ _hours' = new
            /\ loopRet' = LoopRet("hours", "None", <<new>>, 0)
    /\ UNCHANGED <<_minutes, _seconds, runVars, outsideLoop>>

(* loop.minutes = new *)
minutes_setter(new) ==
    /\ IF AssertTimeRaises(_hours, _minutes, _seconds) THEN
            \* setattr(self, '_minutes', self._hours); raise ValueError
            /\ _minutes' = _hours
            /\ loopRet' = LoopRet("minutes", "ValueError", <<new>>, 0)
       ELSE /\ _minutes' = new
            /\ loopRet' = LoopRet("minutes", "None", <<new>>, 0)
    /\ UNCHANGED <<_hours, _seconds, runVars, outsideLoop>>

(* loop.seconds = new *)
seconds_setter(new) ==
    /\ IF AssertTimeRaises(_hours, _minutes, _seconds) THEN
            \* setattr(self, '_seconds', self._hours); raise ValueError
            /\ _seconds' = _hours
            /\ loopRet' = LoopRet("seconds", "ValueError", <<new>>, 0)
       ELSE /\ _seconds' = new
            /\ loopRet' = LoopRet("seconds", "None", <<new>>, 0)
    /\ UNCHANGED <<_hours, _minutes, runVars, outsideLoop>>

\* old_hours + old_minutes + old_seconds > 0
RestoresOld(old) == old[1] + old[2] + old[3] > 0

\* self.total_seconds <= 0 with the fields at f
Rejected(f) == TotalSeconds(f[1], f[2], f[3]) <= 0

\* change_interval(new) called with the fields at old: the fields it can
\* leave and how it ends.  The recursive call change_interval(old) restores
\* old and returns when old is valid; it raises ValueError with the fields at
\* old when old is rejected and new is not restored; when old and new are both
\* rejected and both restored the calls never end and Python raises
\* RecursionError at a depth that leaves either of the two.
ChangeInterval(old, new) ==
    IF ~Rejected(new) THEN [fields |-> {new}, out |-> "None"]
    ELSE IF ~RestoresOld(old) THEN [fields |-> {new}, out |-> "ValueError"]
    ELSE IF ~Rejected(old) THEN [fields |-> {old}, out |-> "ValueError"]
    ELSE IF ~RestoresOld(new) THEN [fields |-> {old}, out |-> "ValueError"]
    ELSE [fields |-> {old, new}, out |-> "RecursionError"]

(* TaskLoop.change_interval(hours, minutes, seconds) *)
change_interval(hours, minutes, seconds) ==
    LET c == ChangeInterval(<<_hours, _minutes, _seconds>>, <<hours, minutes, seconds>>) IN
    /\ \E f \in c.fields :
            /\ _hours' = f[1]
            /\ _minutes' = f[2]
            /\ _seconds' = f[3]
    /\ loopRet' = LoopRet("change_interval", c.out, <<hours, minutes, seconds>>, 0)
    /\ UNCHANGED <<runVars, outsideLoop>>

\* A loop built with any interval the constructor accepts.
InitInterval ==
    /\ TaskGroupInit(FALSE)
    /\ \E hours, minutes, seconds \in Fields :
            /\ TotalSeconds(hours, minutes, seconds) > 0
            /\ TaskLoopInit(hours, minutes, seconds)
    /\ RestInit

NextInterval ==
    \/ \E new \in Fields : hours_setter(new)
    \/ \E new \in Fields : minutes_setter(new)
    \/ \E new \in Fields : seconds_setter(new)
    \/ \E hours, minutes, seconds \in Fields : change_interval(hours, minutes, seconds)

SpecInterval == InitInterval /\ [][NextInterval]_vars

-----------------------------------------------------------------------------
(* TaskLoop: start, the run-loop _start_task, cancel, stop                  *)
(*                                                                          *)
(* A run is the asyncio task start makes for _start_task; runs are numbered *)
(* in the order of the accepted start calls.  A call is the asyncio task a  *)
(* run-loop makes for one invocation of the callback; calls are numbered in *)
(* the order they are made.  The hooks and the callback are coroutines      *)
(* whose bodies lie outside TaskLoop: each ends at some later time by       *)
(* returning or by raising, and a hook lets a cancellation through.  The    *)
(* event loop is not held up: what it can run at once (a first step, the    *)
(* delivery of a cancellation, a due timer) runs before the clock moves on. *)

Runs == 1..Len(runs)

Calls == 1..Len(calls)

\* loop.create_task(self._start_task(...)): a task that has taken no step.
\* before and after count the invocations of the hooks by this run; began is
\* the time of its first pass of `while True`.
NewRun ==
    [pc |-> "created", cancelReq |-> FALSE, cancelCalled |-> FALSE, wake |-> 0,
     before |-> 0, after |-> 0, out |-> "none", began |-> None]

\* loop.create_task(self.callback(...)) made by the run r.
NewCall(r) == [run |-> r, st |-> "pending"]

\* An interval of total_seconds ticks.
IntervalInTicks == total_seconds

\* The delay of asyncio.sleep(self.total_seconds), and the distance from
\* last_iteration to next_iteration, in ticks.
Interval == total_seconds * TicksPerSecond

\* TaskLoop.next_iteration
next_iteration ==
    IF _last_iteration = None THEN None ELSE _last_iteration + Interval

\* A start that rejects nothing.
AlreadyStartedNever(t) == FALSE

\* `self.task is not MISSING`
AlreadyStarted(t) == t # MISSING

(* TaskLoop.start() *)
start ==
    /\ IF AlreadyStarted(_task) THEN
            /\ loopRet' = LoopRet("start", "RuntimeError", <<>>, _task)
            /\ UNCHANGED <<_iteration, _task, runs>>
       ELSE /\ Len(runs) < MaxRuns
            /\ _iteration' = 0
            /\ runs' = Append(runs, NewRun)
            /\ _task' = Len(runs) + 1
            /\ loopRet' = LoopRet("start", "None", <<>>, Len(runs) + 1)
    /\ UNCHANGED <<intervalVars, _coro_task, _last_iteration, _before_loop,
                   _after_loop, calls, stopper, now, outsideLoop>>

(* TaskLoop.before_loop(func), as a decorator applied before the first start *)
before_loop ==
    /\ ~_before_loop
    /\ runs = <<>>
    /\ _before_loop' = TRUE
    /\ loopRet' = LoopRet("before_loop", "func", <<>>, 0)
    /\ UNCHANGED <<intervalVars, _task, _coro_task, _iteration, _last_iteration,
                   _after_loop, runs, calls, stopper, now, outsideLoop>>

(* TaskLoop.after_loop(func), as a decorator applied before the first start *)
after_loop ==
    /\ ~_after_loop
    /\ runs = <<>>
    /\ _after_loop' = TRUE
    /\ loopRet' = LoopRet("after_loop", "func", <<>>, 0)
    /\ UNCHANGED <<intervalVars, _task, _coro_task, _iteration, _last_iteration,
                   _before_loop, runs, calls, stopper, now, outsideLoop>>

\* A cancel that asks nothing of the task.
CancelRunNoRequest(run) == run

\* self._task.cancel(): a request the run-loop sees at its next step.
CancelRun(run) == IF run.pc = "done" THEN run ELSE [run EXCEPT !.cancelReq = TRUE]

\* The three statements of cancel, for the task t in self._task.
\* cancelCalled records that cancel() was called on a run that had not ended.
Cancel(t) ==
    /\ runs' = [runs EXCEPT ![t] = [CancelRun(@) EXCEPT !.cancelCalled = (runs[t].pc # "done")]]
    /\ _task' = MISSING
    /\ _coro_task' = MISSING

(* TaskLoop.cancel() *)
TaskLoop_cancel ==
    /\ IF _task = MISSING THEN
            \* MISSING has no attribute `cancel`
            /\ loopRet' = LoopRet("cancel", "AttributeError", <<>>, 0)
            /\ UNCHANGED <<_task, _coro_task, runs>>
       ELSE /\ Cancel(_task)
            /\ loopRet' = LoopRet("cancel", "None", <<>>, _task)
    /\ UNCHANGED <<intervalVars, _iteration, _last_iteration, _before_loop,
                   _after_loop, calls, stopper, now, outsideLoop>>

\* One pass of `while True`, up to the sleep: the run r makes a task for the
\* callback and goes on without awaiting it.
Iteration(r) ==
    /\ Len(calls) < MaxCalls
    /\ calls' = Append(calls, NewCall(r))
    /\ _coro_task' = Len(calls) + 1
    /\ _iteration' = _iteration + 1
    /\ _last_iteration' = now
    /\ runs' = [runs EXCEPT ![r].pc = "sleep", ![r].wake = now + Interval,
                             ![r].began = IF @ = None THEN now ELSE @]

(* A first step that goes to the first pass without the before hook. *)
first_step_without_hook(r) ==
    /\ runs[r].pc = "created"
    /\ ~runs[r].cancelReq
    /\ Iteration(r)
    /\ loopRet' = NoLoopRet
    /\ UNCHANGED <<intervalVars, _task, _before_loop, _after_loop, stopper, now, outsideLoop>>

(* The first step of the run-loop task: _start_task up to its first await. *)
first_step(r) ==
    /\ runs[r].pc = "created"
    /\ ~runs[r].cancelReq
    /\ IF _before_loop THEN
            /\ runs' = [runs EXCEPT ![r].pc = "before", ![r].before = @ + 1]
            /\ UNCHANGED <<_coro_task, _iteration, _last_iteration, calls>>
       ELSE Iteration(r)
    /\ loopRet' = NoLoopRet
    /\ UNCHANGED <<intervalVars, _task, _before_loop, _after_loop, stopper, now, outsideLoop>>

(* `await self._before_loop(...)` ends: outside the try, so an exception of *)
(* the hook ends the task without the finally clause.                       *)
before_done(r) ==
    /\ runs[r].pc = "before"
    /\ ~runs[r].cancelReq
    /\ \E returns \in BOOLEAN :
            IF returns THEN Iteration(r)
            ELSE /\ runs' = [runs EXCEPT ![r].pc = "done", ![r].out = "exception"]
                 /\ UNCHANGED <<_coro_task, _iteration, _last_iteration, calls>>
    /\ loopRet' = NoLoopRet
    /\ UNCHANGED <<intervalVars, _task, _before_loop, _after_loop, stopper, now, outsideLoop>>

(* `await asyncio.sleep(self.total_seconds)` ends: the next pass. *)
sleep_over(r) ==
    /\ runs[r].pc = "sleep"
    /\ ~runs[r].cancelReq
    /\ now >= runs[r].wake
    /\ Iteration(r)
    /\ loopRet' = NoLoopRet
    /\ UNCHANGED <<intervalVars, _task, _before_loop, _after_loop, stopper, now, outsideLoop>>

(* The step in which the run-loop task sees the cancel request.  A task that *)
(* has taken no step never runs its coroutine; CancelledError raised at the  *)
(* await of the before hook is outside the try; raised at the sleep it runs  *)
(* the finally clause.                                                       *)
cancelled(r) ==
    /\ runs[r].pc # "done"
    /\ runs[r].cancelReq
    /\ IF runs[r].pc = "sleep" /\ _after_loop THEN
            runs' = [runs EXCEPT ![r].pc = "after", ![r].after = @ + 1, ![r].cancelReq = FALSE]
       ELSE runs' = [runs EXCEPT ![r].pc = "done", ![r].out = "cancelled", ![r].cancelReq = FALSE]
    /\ loopRet' = NoLoopRet
    /\ UNCHANGED <<intervalVars, _task, _coro_task, _iteration, _last_iteration,
                   _before_loop, _after_loop, calls, stopper, now, outsideLoop>>

(* `await self._after_loop(...)` in the finally clause ends: the task ends *)
(* with the CancelledError, or with the exception of the hook.             *)
after_done(r) ==
    /\ runs[r].pc = "after"
    /\ ~runs[r].cancelReq
    /\ \E returns \in BOOLEAN :
            runs' = [runs EXCEPT ![r].pc = "done",
                                 ![r].out = IF returns THEN "cancelled" ELSE "exception"]
    /\ loopRet' = NoLoopRet
    /\ UNCHANGED <<intervalVars, _task, _coro_task, _iteration, _last_iteration,
                   _before_loop, _after_loop, calls, stopper, now, outsideLoop>>

(* An invocation of the callback ends, by returning or by raising. *)
call_done(c) ==
    /\ calls[c].st = "pending"
    /\ \E st \in {"result", "exception"} : calls' = [calls EXCEPT ![c].st = st]
    /\ loopRet' = NoLoopRet
    /\ UNCHANGED <<intervalVars, _task, _coro_task, _iteration, _last_iteration,
                   _before_loop, _after_loop, runs, stopper, now, outsideLoop>>

\* `self.next_iteration is not None`
HasNextIteration(last) == last # None

(* `await loop.stop()`, up to its first await *)
stop ==
    /\ stopper.pc \in {"idle", "returned", "raised"}
    /\ stopper.n < MaxStops
    /\ IF HasNextIteration(_last_iteration) THEN
            /\ stopper' = [pc |-> "sleeping", wake |-> next_iteration,
                           awaiting |-> 0, run |-> _task, n |-> stopper.n + 1]
            /\ loopRet' = NoLoopRet
       ELSE /\ stopper' = [stopper EXCEPT !.pc = "raised", !.n = @ + 1]
            /\ loopRet' = LoopRet("stop", "AssertionError", <<>>, 0)
    /\ UNCHANGED <<intervalVars, _task, _coro_task, _iteration, _last_iteration,
                   _before_loop, _after_loop, runs, calls, now, outsideLoop>>

\* stop from the end of `await self._coro_task` on, c being the task awaited:
\* its exception is raised out of stop, else self.cancel() is called.
StopEnds(c) ==
    IF calls[c].st = "exception" THEN
        /\ stopper' = [stopper EXCEPT !.pc = "raised", !.awaiting = 0]
        /\ loopRet' = LoopRet("stop", "exception", <<>>, 0)
        /\ UNCHANGED <<_task, _coro_task, runs>>
    ELSE IF _task = MISSING THEN
        /\ stopper' = [stopper EXCEPT !.pc = "raised", !.awaiting = 0]
        /\ loopRet' = LoopRet("stop", "AttributeError", <<>>, 0)
        /\ UNCHANGED <<_task, _coro_task, runs>>
    ELSE
        /\ Cancel(_task)
        /\ stopper' = [stopper EXCEPT !.pc = "returned", !.awaiting = 0]
        /\ loopRet' = LoopRet("stop", "None", <<>>, _task)

(* stop wakes from its sleep and reaches `await self._coro_task` *)
stop_wake ==
    /\ stopper.pc = "sleeping"
    /\ now >= stopper.wake
    /\ IF _coro_task = MISSING THEN
            \* MISSING cannot be awaited: TypeError
            /\ stopper' = [stopper EXCEPT !.pc = "raised"]
            /\ loopRet' = LoopRet("stop", "TypeError", <<>>, 0)
            /\ UNCHANGED <<_task, _coro_task, runs>>
       ELSE IF calls[_coro_task].st = "pending" THEN
            /\ stopper' = [stopper EXCEPT !.pc = "awaiting", !.awaiting = _coro_task]
            /\ loopRet' = NoLoopRet
            /\ UNCHANGED <<_task, _coro_task, runs>>
       ELSE StopEnds(_coro_task)
    /\ UNCHANGED <<intervalVars, _iteration, _last_iteration, _before_loop,
                   _after_loop, calls, now, outsideLoop>>

(* the task stop awaits is done: stop goes on *)
stop_resume ==
    /\ stopper.pc = "awaiting"
    /\ calls[stopper.awaiting].st # "pending"
    /\ StopEnds(stopper.awaiting)
    /\ UNCHANGED <<intervalVars, _iteration, _last_iteration, _before_loop,
                   _after_loop, calls, now, outsideLoop>>

\* What the event loop runs without waiting.
Runnable ==
    \/ \E r \in Runs : runs[r].pc # "done" /\ runs[r].cancelReq
    \/ \E r \in Runs : runs[r].pc = "created"
    \/ \E r \in Runs : runs[r].pc = "sleep" /\ runs[r].wake <= now
    \/ stopper.pc = "sleeping" /\ stopper.wake <= now
    \/ stopper.pc = "awaiting" /\ calls[stopper.awaiting].st # "pending"

(* The clock moves on by one tick. *)
tick ==
    /\ now < MaxTime
    /\ ~Runnable
    /\ now' = now + 1
    /\ loopRet' = NoLoopRet
    /\ UNCHANGED <<intervalVars, _task, _coro_task, _iteration, _last_iteration,
                   _before_loop, _after_loop, runs, calls, stopper, outsideLoop>>

\* A loop built with seconds=1.
InitLoop ==
    /\ TaskGroupInit(FALSE)
    /\ TaskLoopInit(0, 0, 1)
    /\ RestInit

NextLoop ==
    \/ before_loop
    \/ after_loop
    \/ start
    \/ TaskLoop_cancel
    \/ stop
    \/ \E r \in Runs : first_step(r)
    \/ \E r \in Runs : before_done(r)
    \/ \E r \in Runs : sleep_over(r)
    \/ \E r \in Runs : cancelled(r)
    \/ \E r \in Runs : after_done(r)
    \/ \E c \in Calls : call_done(c)
    \/ stop_wake
    \/ stop_resume
    \/ tick

SpecLoop == InitLoop /\ [][NextLoop]_vars

TypeOKLoop ==
    /\ _task \in {MISSING} \cup Runs
    /\ _coro_task \in {MISSING} \cup Calls
    /\ _iteration \in 0..MaxCalls
    /\ _last_iteration \in {None} \cup 0..MaxTime
    /\ now \in 0..MaxTime
    /\ Len(runs) <= MaxRuns
    /\ Len(calls) <= MaxCalls
    /\ \A r \in Runs : runs[r].pc \in {"created", "before", "sleep", "after", "done"}
    /\ stopper.pc \in {"idle", "sleeping", "awaiting", "returned", "raised"}

-----------------------------------------------------------------------------
(* Specifications of taskify_func and today_sleep_until *)

InitFunc ==
    /\ TaskGroupInit(FALSE)
    /\ TaskLoopInit(0, 0, 1)
    /\ RestInit

NextFunc ==
    \/ \E name \in CallbackNames : default_done_callback(name)
    \/ \E name \in CallbackNames : remove_default_done_callback(name)
    \/ taskify_call

SpecFunc == InitFunc /\ [][NextFunc]_vars

InitSleep ==
    /\ TaskGroupInit(FALSE)
    /\ TaskLoopInit(0, 0, 1)
    /\ FuncInit
    /\ ExecutorInit(FALSE)
    /\ IterableInit(0, FALSE, FALSE)
    /\ \E hours \in SleepHours, minutes \in SleepMinutes, seconds \in SleepSeconds,
          t \in SleepNows : SleepInit(hours, minutes, seconds, t)

NextSleep ==
    \/ today_sleep_until
    \/ sleep_done

SpecSleep == InitSleep /\ [][NextSleep]_vars

-----------------------------------------------------------------------------
(* Specifications of ThreadCoroutineExecutor and AsyncIterable *)

InitThread ==
    /\ TaskGroupInit(FALSE)
    /\ TaskLoopInit(0, 0, 1)
    /\ FuncInit
    /\ SleepNotCalled
    /\ IterableInit(0, FALSE, FALSE)
    /\ \E w \in BOOLEAN : ExecutorInit(w)

NextThread ==
    \/ executor_aenter
    \/ execute
    \/ \E f \in Futures : coro_done(f)
    \/ \E f \in Futures : future_done(f)
    \/ executor_aexit
    \/ executor_wakeup
    \/ loop_close

SpecThread == InitThread /\ [][NextThread]_vars

InitIter ==
    /\ TaskGroupInit(FALSE)
    /\ TaskLoopInit(0, 0, 1)
    /\ FuncInit
    /\ SleepNotCalled
    /\ ExecutorInit(FALSE)
    /\ \E n \in Items, has_before \in BOOLEAN, has_after \in BOOLEAN :
            IterableInit(n, has_before, has_after)

NextIter ==
    \/ aiter
    \/ anext
    \/ iter_before_done
    \/ iter_after_done

SpecIter == InitIter /\ [][NextIter]_vars

-----------------------------------------------------------------------------
(* Properties of TaskGroup *)

\* Every task made so far is done.
AllSettled == \A h \in Handles : done(tasks[h])

\* Every task that was asked to cancel let the cancellation through.
CancellationHonoured ==
    \A h \in Handles : tasks[h].cancelReq => tasks[h].st \in {"pending", "cancelled"}

\* __aexit__ has completed, by returning or by raising.
ExitCompleted == pc \in {"returned", "raised_timeout", "raised_exception"}

\* The ids of the entries a get_results call yielded.
YieldedIds(r) == {r.yielded[i][1] : i \in 1..Len(r.yielded)}

\* C1: once the group has finished (scope exit returned and every item has
\* settled), get_results(return_exceptions=True) yields exactly N pairs, N
\* the number of items submitted, and their ids are exactly 0..N-1.
C1_ResultsCoverEveryItem ==
    (/\ ret.op = "get_results"
     /\ ret.arg
     /\ pc = "returned"
     /\ AllSettled
     /\ ready = <<>>)
    => (/\ ret.out = "exhausted"
        /\ Len(ret.yielded) = ncoros
        /\ YieldedIds(ret) = 0..(ncoros - 1))

\* C2: whenever scope exit has completed (by returning, or by raising
\* TimeoutError after the deadline fired) and no item is pending, the state
\* is FINISHED.
C2_ExitLeavesFinished ==
    (pc \in {"returned", "raised_timeout"} /\ pending_tasks = <<>>) => state = FINISHED

\* C3: after scope exit has completed, every create_task call raises
\* RuntimeError, starts no task and leaves unscheduled, pending and finished
\* unchanged.
C3_CreateAfterExitRejected ==
    [][(create_task /\ pc = "returned")
        => (/\ ret'.out = "RuntimeError"
            /\ UNCHANGED <<tasks, unscheduled, pending_tasks, finished_tasks>>)]_vars

\* C4: if the deadline fired after activation, with the caller in the scope
\* body or waiting in scope exit, while an item had not settled, and the
\* items honour cancellation, then the state is TIMEOUTED and scope exit,
\* once it completes, has raised TimeoutError.
C4_DeadlineRaisesTimeout ==
    (liveTimeout /\ CancellationHonoured)
    => (/\ state = TIMEOUTED
        /\ ExitCompleted => pc = "raised_timeout")

\* C5: in every reachable state each scheduled (id, task) pair occurs exactly
\* once in all_tasks, the concatenation of pending and finished.
C5_EachPairOnce ==
    \A h \in Handles : Count(all_tasks, <<tasks[h].id, h>>) = 1

\* The exception of task h can be had from get_results on the group as it
\* is: yielded as data, or raised by the generator.
Obtainable(h) ==
    \E b \in BOOLEAN :
        LET r == GetResults(b) IN
        \/ r.out = "exception" /\ r.task = h
        \/ \E i \in 1..Len(r.yielded) : r.yielded[i] = <<tasks[h].id, ExceptionOf(h)>>

\* C6: when scope exit completes, the exception of every item that has
\* raised by then is either the one scope exit raises or can be had from
\* get_results on the group scope exit leaves.
C6_NoFailureSwallowed ==
    [][(~ExitCompleted /\ ExitCompleted')
        => \A h \in Handles :
              tasks[h].st = "exception" => (exitExc' = h \/ Obtainable(h)')]_vars

\* C7: create_task on a group that has not been activated appends the item
\* to unscheduled, returns None and starts nothing (pending and finished stay
\* empty); create_task on a RUNNING group starts a task at once, appends it
\* to pending and returns it.
C7_DeferredThenImmediate ==
    [][create_task
        => (/\ pc = "init"
               => (/\ ret'.out = "None"
                   /\ unscheduled' = Append(unscheduled, ncoros + 1)
                   /\ tasks' = tasks
                   /\ pending_tasks' = <<>>
                   /\ finished_tasks' = <<>>)
            /\ state = RUNNING
               => (/\ ret'.out = "task"
                   /\ ret'.task = Len(tasks) + 1
                   /\ Len(tasks') = Len(tasks) + 1
                   /\ tasks'[ret'.task].coro = ncoros + 1
                   /\ ~done(tasks'[ret'.task])
                   /\ pending_tasks' = Append(pending_tasks, <<tasks'[ret'.task].id, ret'.task>>)
                   /\ unscheduled' = unscheduled))]_vars

FirstFailed ==
    LET failed == {i \in 1..Len(finished_tasks) : tasks[finished_tasks[i][2]].st = "exception"}
    IN  IF failed = {} THEN 0 ELSE CHOOSE i \in failed : \A j \in failed : i <= j

\* C9: on a group that has finished, get_results(return_exceptions=True)
\* yields (id, exception) for every item that raised and does not raise it;
\* get_results(return_exceptions=False) yields the entries before the first
\* item that raised, in order, then raises that item's exception.
C9_ExceptionsAsDataOrRaised ==
    (/\ ret.op = "get_results"
     /\ pc = "returned"
     /\ AllSettled
     /\ ready = <<>>
     /\ FirstFailed # 0)
    => IF ret.arg
       THEN /\ ret.out # "exception"
            /\ \A i \in 1..Len(finished_tasks) :
                  tasks[finished_tasks[i][2]].st = "exception"
                  => \E j \in 1..Len(ret.yielded) :
                        ret.yielded[j] = <<finished_tasks[i][1], ExceptionOf(finished_tasks[i][2])>>
       ELSE /\ ret.out = "exception"
            /\ ret.task = finished_tasks[FirstFailed][2]
            /\ Len(ret.yielded) = FirstFailed - 1
            /\ \A j \in 1..(FirstFailed - 1) : ret.yielded[j][1] = finished_tasks[j][1]

\* C10: the k-th task scheduled, counting from 0, has id k.
C10_IdsFollowSubmission ==
    \A h \in Handles : tasks[h].id = h - 1

-----------------------------------------------------------------------------
(* Properties of TaskLoop *)

\* The total the fields would give with the field `name` set to new.
TotalWith(name, new) ==
    IF name = "hours" THEN TotalSeconds(new, _minutes, _seconds)
    ELSE IF name = "minutes" THEN TotalSeconds(_hours, new, _seconds)
    ELSE TotalSeconds(_hours, _minutes, new)

\* C16: on a loop whose total is above 0, assigning hours, minutes or seconds
\* a value that makes the total <= 0 raises ValueError and leaves the three
\* fields as they were.
C16_FieldAssignmentRejected ==
    [][(/\ loopRet'.op \in {"hours", "minutes", "seconds"}
        /\ total_seconds > 0
        /\ TotalWith(loopRet'.op, loopRet'.arg[1]) <= 0)
       => (loopRet'.out = "ValueError" /\ UNCHANGED intervalVars)]_vars

\* C17: on a loop whose total is above 0, change_interval with arguments
\* whose total is <= 0 raises ValueError and leaves the three fields as they
\* were.
C17_ChangeIntervalRejected ==
    [][(/\ loopRet'.op = "change_interval"
        /\ total_seconds > 0
        /\ TotalSeconds(loopRet'.arg[1], loopRet'.arg[2], loopRet'.arg[3]) <= 0)
       => (loopRet'.out = "ValueError" /\ UNCHANGED intervalVars)]_vars

\* The calls the run r made that are still in flight.
InFlight(r) == {c \in Calls : calls[c].run = r /\ calls[c].st = "pending"}

\* The step makes the run r begin an invocation of the callback.
Begins(r) == Len(calls') > Len(calls) /\ calls'[Len(calls')].run = r

\* C12: at any moment at most one invocation of the callback made by a
\* run-loop is in flight.
C12_NoOverlap ==
    \A r \in Runs : Cardinality(InFlight(r)) <= 1

\* C13: a run one of whose callback invocations has raised begins no further
\* invocation.
C13_RaiseEndsLoop ==
    [][\A r \in Runs :
          (\E c \in Calls : calls[c].run = r /\ calls[c].st = "exception") => ~Begins(r)]_vars

\* C14: with an after hook registered, a run that cancel() ended has invoked
\* the after hook exactly once by the time its task is done.
C14_CancelRunsAfterHookOnce ==
    \A r \in Runs :
        (_after_loop /\ runs[r].cancelCalled /\ runs[r].pc = "done") => runs[r].after = 1

C18_IterationCountsCompleted ==
    _iteration = Cardinality({c \in Calls : calls[c].run = Len(runs) /\ calls[c].st # "pending"})

\* C19: start on a loop whose task is set raises RuntimeError and changes
\* none of the loop's fields, its run-loop tasks or its callback tasks.
C19_SecondStartRejected ==
    [][(loopRet'.op = "start" /\ _task # MISSING)
       => (/\ loopRet'.out = "RuntimeError"
           /\ UNCHANGED <<_task, _coro_task, _iteration, _last_iteration, runs, calls,
                          intervalVars>>)]_vars

\* start has just been rejected on a loop that has made two iterations and
\* whose run-loop is asleep.
C19_Witness ==
    /\ loopRet.op = "start"
    /\ loopRet.out = "RuntimeError"
    /\ _iteration = 2
    /\ runs[_task].pc = "sleep"

\* C20: when stop returns the loop's task is cleared and no invocation made
\* by the run it stopped is in flight.
C20_StopLeavesIdle ==
    (loopRet.op = "stop" /\ loopRet.out = "None")
        => (_task = MISSING /\ InFlight(loopRet.run) = {})

\* The run-loop of the loop's current task is in its while loop, asleep
\* between two passes, and has not been asked to cancel.
Iterating(r) == _task = r /\ runs[r].pc = "sleep" /\ ~runs[r].cancelReq

\* floor(t) for the time t, in seconds, since the run r began its first pass.
FloorElapsed(r) == (now - runs[r].began) \div TicksPerSecond

\* C21: with seconds=1, at every tick since the run-loop began its first
\* pass iteration differs from the whole seconds elapsed by at most 1, and
\* when last_iteration is set next_iteration - last_iteration is
\* total_seconds.
C21_IterationTracksTime ==
    /\ \A r \in Runs :
            Iterating(r) =>
                /\ _iteration - FloorElapsed(r) <= 1
                /\ FloorElapsed(r) - _iteration <= 1
    /\ _last_iteration # None =>
            next_iteration - _last_iteration = total_seconds * TicksPerSecond

\* One and a half seconds after its first pass the run has made two passes.
C21_Witness ==
    \E r \in Runs :
        /\ Iterating(r)
        /\ now - runs[r].began = TicksPerSecond + 1
        /\ _iteration = 2
        /\ next_iteration = _last_iteration + TicksPerSecond

-----------------------------------------------------------------------------
(* Properties of taskify_func and today_sleep_until *)

\* C22: a task made by a call gets no callback that was removed (and not
\* registered again) before the call; remove_default_done_callback of a name
\* that is not registered raises RuntimeError and leaves the registry as it
\* was.
C22_RemovedNotAttached ==
    [][/\ funcRet'.op = "__call__" =>
            ftasks'[Len(ftasks')].callbacks \cap ftasks'[Len(ftasks')].removed = {}
       /\ (funcRet'.op = "remove_default_done_callback" /\ funcRet'.arg \notin _done_callbacks) =>
            (funcRet'.out = "RuntimeError" /\ UNCHANGED _done_callbacks)]_vars

\* C25: for hours in 0..23, minutes in 0..59 and seconds in 0..59 the sleep
\* time is hours*3600 + minutes*60 + seconds minus the seconds elapsed today.
C25_TwentyFourHourTime ==
    (/\ sleepCall.pc = "sleeping"
     /\ sleepCall.hours \in 0..23
     /\ sleepCall.minutes \in 0..59
     /\ sleepCall.seconds \in 0..59)
    => sleepCall.sleep_time =
            ((sleepCall.hours * 3600) + (sleepCall.minutes * 60) + sleepCall.seconds)
                - TotalSecondsNow(sleepCall.now)

-----------------------------------------------------------------------------
(* Properties of ThreadCoroutineExecutor and AsyncIterable *)

\* C23: with wait=True, once the async-with block has been left and close()
\* has been called, every coroutine passed to execute has finished.
C23_ExitWaitsForAll ==
    (wait /\ execPc \in {"exited", "raised"})
        => \A f \in Futures : futures[f].coro # "running"

RECURSIVE HookCalls(_)
\* before, item k, after for k = 1..n, in this order.
HookCalls(n) ==
    IF n = 0 THEN <<>>
    ELSE HookCalls(n - 1) \o <<Event("before", 0), Event("item", n), Event("after", n)>>

IsYield(e) == e.kind = "yield"

IsCall(e) == e.kind # "yield"

-----------------------------------------------------------------------------
(* Properties of TaskGroup: scope exit, the deadline, the order of the lists *)

\* C26: when scope exit completes, by returning or by raising, every item
\* submitted so far has settled.
C26_ExitWaitsForEveryItem ==
    [][(~ExitCompleted /\ ExitCompleted') => AllSettled']_vars

\* C27: a deadline callback that fires before activation or after scope exit
\* has completed leaves the state and the unscheduled, pending and finished
\* lists as they are, and no timer is left scheduled once scope exit has
\* completed.
C27_DeadlineOnlyWhileRunning ==
    [][/\ ((\E k \in Timers : raise_timeout(k)) /\ (pc = "init" \/ ExitCompleted))
            => UNCHANGED <<state, unscheduled, pending_tasks, finished_tasks>>
       /\ ExitCompleted' => \A k \in Timers : timers'[k] # "scheduled"]_vars

C29_EntrySchedulesInOrder ==
    [][/\ (pc = "init" /\ pc' = "body") =>
            /\ Len(pending_tasks') >= Len(unscheduled)
            /\ \A i \in 1..Len(unscheduled) :
                  /\ pending_tasks'[i][1] = i - 1
                  /\ tasks'[pending_tasks'[i][2]].coro = unscheduled[i]
                  /\ tasks'[pending_tasks'[i][2]].id = i - 1
       /\ (pc # "init" /\ Len(tasks') > Len(tasks)) =>
            tasks'[Len(tasks')].id = Len(tasks)]_vars

\* C30: every entry of finished holds the id its task was given, and no item
\* that has not reached its terminal state precedes in finished an item that
\* has.
C30_FinishedInSettlementOrder ==
    /\ \A i \in 1..Len(finished_tasks) :
          finished_tasks[i][1] = tasks[finished_tasks[i][2]].id
    /\ \A i, j \in 1..Len(finished_tasks) :
          (i < j /\ done(tasks[finished_tasks[j][2]])) => done(tasks[finished_tasks[i][2]])

-----------------------------------------------------------------------------
(* Properties of TaskGroup: cancel_all_tasks, change_timeout, the finished list *)

C32_OnlyLatestTimerFires ==
    \A k \in Timers : timers[k] = "scheduled" => k = handle

\* The second timer has fired after it replaced the first one.
C32_Witness ==
    /\ timers[1] = "cancelled"
    /\ timers[2] = "fired"
    /\ state = TIMEOUTED

\* C33: change_timeout in a state other than NOT_STARTED and RUNNING raises
\* RuntimeError and leaves the timers, the handle and the state as they are.
C33_ChangeTimeoutRejected ==
    [][(ret'.op = "change_timeout" /\ state \notin {NOT_STARTED, RUNNING})
        => (/\ ret'.out = "RuntimeError"
            /\ UNCHANGED <<timers, handle, state>>)]_vars

\* change_timeout has been rejected on a group that timed out.
C33_Witness ==
    /\ ret.op = "change_timeout"
    /\ ret.out = "RuntimeError"
    /\ state = TIMEOUTED

\* C37: every task in the finished list is done.
C37_FinishedAreSettled ==
    \A i \in 1..Len(finished_tasks) : done(tasks[finished_tasks[i][2]])

-----------------------------------------------------------------------------
(* Properties of TaskLoop: stop, the hooks, next_iteration, restarts *)

\* C34: a stop() called on a running loop that has made an iteration leaves
\* the loop idle when it ends: the handle is cleared and the run-loop it was
\* called on has been cancelled.
C34_StopEndsWithLoopIdle ==
    [][(loopRet'.op = "stop" /\ stopper.pc \in {"sleeping", "awaiting"} /\ stopper.run # MISSING)
        => (/\ _task' = MISSING
            /\ runs'[stopper.run].pc = "done" \/ runs'[stopper.run].cancelReq)]_vars

\* The before hook of the run r raised: the run ended with an exception
\* that is not the after hook's.
BeforeRaised(r) == runs[r].pc = "done" /\ runs[r].out = "exception" /\ runs[r].after = 0

C36_NextIterationNeedsCompletedCall ==
    (/\ _task # MISSING
     /\ \A c \in Calls : calls[c].run = _task => calls[c].st = "pending")
    => next_iteration = None

\* The run r is between the start of its before hook (or first pass) and the
\* end of its after hook, and no cancellation is waiting to be delivered to it.
Active(r) == runs[r].pc \in {"before", "sleep", "after"} /\ ~runs[r].cancelReq

\* C38: at most one run of the loop is active at any time.
C38_OneActiveRun ==
    Cardinality({r \in Runs : Active(r)}) <= 1

\* C39: a start that is rejected finds the body of the run-loop in _task
\* still alive.
C39_RejectedOnlyWhileAlive ==
    [][(loopRet'.op = "start" /\ loopRet'.out = "RuntimeError")
        => runs[_task].pc # "done"]_vars

=============================================================================
